---- MODULE Spec2Model ----
(***************************************************************************)
(* Model of include/sbi/sbi_platform.h: the platform descriptor            *)
(* (struct sbi_platform), the feature-query macros and the inline accessor *)
(* functions that dispatch to the board's entry points.                    *)
(*                                                                         *)
(* Representation                                                          *)
(*   - a pointer is an integer address; NULL is 0 and the one descriptor   *)
(*     of the board lives at PlatAddr;                                     *)
(*   - a u64 bit vector (features, disabled_hart_mask) is the set of the   *)
(*     positions of its set bits, so that all 64 bits are kept;            *)
(*   - every accessor yields a record: ret (the C return value, 0 for a    *)
(*     void function), calls (the backend entry points it invoked, in      *)
(*     order, with their arguments), deref (the byte offsets it read       *)
(*     through the descriptor pointer), fault (the access trapped) and     *)
(*     outs (the caller's output locations after the call).                *)
(***************************************************************************)
EXTENDS Integers, Sequences, FiniteSets, TLC

(* ----------------------------- bounds --------------------------------- *)
\* harts that execute accessor calls concurrently
NumHarts == 2
\* highest bit of the features word that a descriptor of the model may set
\* (bits 0..5 are the defined features, line 27-40)
MaxFeatureBit == 6

Harts == 0 .. (NumHarts - 1)

(* --------------------------- constants -------------------------------- *)
NULL == 0
SBI_PLATFORM_NAME_OFFSET == 0
SBI_PLATFORM_FEATURES_OFFSET == 64
SBI_PLATFORM_HART_COUNT_OFFSET == 72
SBI_PLATFORM_HART_STACK_SIZE_OFFSET == 76

\* enum sbi_platform_features: the bit position n of each flag (1 << n)
SBI_PLATFORM_HAS_MMIO_TIMER_VALUE == {0}
SBI_PLATFORM_HAS_HART_HOTPLUG == {1}
SBI_PLATFORM_HAS_PMP == {2}
SBI_PLATFORM_HAS_SCOUNTEREN == {3}
SBI_PLATFORM_HAS_MCOUNTEREN == {4}
SBI_PLATFORM_HAS_MFAULTS_DELEGATION == {5}

SBI_PLATFORM_DEFAULT_FEATURES ==
    SBI_PLATFORM_HAS_MMIO_TIMER_VALUE \cup SBI_PLATFORM_HAS_PMP
    \cup SBI_PLATFORM_HAS_SCOUNTEREN \cup SBI_PLATFORM_HAS_MCOUNTEREN
    \cup SBI_PLATFORM_HAS_MFAULTS_DELEGATION

\* width of int and of u64
IntBits == 32
U64Bits == 64
\* size of a function pointer in the packed structure
PtrSize == 8

(* ------------------------ struct sbi_platform -------------------------- *)
\* a variant in which hart_count is a 64-bit member
sbi_platform_members_WideHartCount ==
    << <<"name", 64>>, <<"features", 8>>, <<"hart_count", 8>>,
       <<"hart_stack_size", 4>>, <<"disabled_hart_mask", 8>>,
       <<"early_init", PtrSize>>, <<"final_init", PtrSize>>,
       <<"pmp_region_count", PtrSize>>, <<"pmp_region_info", PtrSize>>,
       <<"console_putc", PtrSize>>, <<"console_getc", PtrSize>>,
       <<"console_init", PtrSize>>, <<"irqchip_init", PtrSize>>,
       <<"ipi_inject", PtrSize>>, <<"ipi_sync", PtrSize>>,
       <<"ipi_clear", PtrSize>>, <<"ipi_init", PtrSize>>,
       <<"timer_value", PtrSize>>, <<"timer_event_start", PtrSize>>,
       <<"timer_event_stop", PtrSize>>, <<"timer_init", PtrSize>>,
       <<"system_reboot", PtrSize>>, <<"system_shutdown", PtrSize>> >>

\* members in declaration order, with their sizes in bytes
sbi_platform_members ==
    << <<"name", 64>>, <<"features", 8>>, <<"hart_count", 4>>,
       <<"hart_stack_size", 4>>, <<"disabled_hart_mask", 8>>,
       <<"early_init", PtrSize>>, <<"final_init", PtrSize>>,
       <<"pmp_region_count", PtrSize>>, <<"pmp_region_info", PtrSize>>,
       <<"console_putc", PtrSize>>, <<"console_getc", PtrSize>>,
       <<"console_init", PtrSize>>, <<"irqchip_init", PtrSize>>,
       <<"ipi_inject", PtrSize>>, <<"ipi_sync", PtrSize>>,
       <<"ipi_clear", PtrSize>>, <<"ipi_init", PtrSize>>,
       <<"timer_value", PtrSize>>, <<"timer_event_start", PtrSize>>,
       <<"timer_event_stop", PtrSize>>, <<"timer_init", PtrSize>>,
       <<"system_reboot", PtrSize>>, <<"system_shutdown", PtrSize>> >>

\* the entry points of the operation table
Entries == { sbi_platform_members[i][1] : i \in 6 .. Len(sbi_platform_members) }

MemberIndex(f) ==
    CHOOSE i \in DOMAIN sbi_platform_members : sbi_platform_members[i][1] = f

sizeof(f) == sbi_platform_members[MemberIndex(f)][2]

RECURSIVE PackedOffset(_)
\* __packed: a member starts where the previous one ends, no padding
PackedOffset(i) ==
    IF i = 1 THEN 0
    ELSE PackedOffset(i - 1) + sbi_platform_members[i - 1][2]

offsetof(f) == PackedOffset(MemberIndex(f))

(* ------------------- environment outside this header ------------------- *)
\* address at which the board's descriptor is linked
PlatAddr == 4096
\* addresses of the board's backend functions start here
BackendBase == 8192
\* address of the backend function behind entry point e
BackendAddr(e) == BackendBase + MemberIndex(e)

VARIABLES platform, scratch, pc, last

vars == <<platform, scratch, pc, last>>

(* -------------------------- result records ----------------------------- *)
\* what one accessor call yields
Result(ret, calls, deref, fault, outs) ==
    [ret |-> ret, calls |-> calls, deref |-> deref, fault |-> fault,
     outs |-> outs]

\* plat->f once plat is known to point at the descriptor
Load(plat, f) == platform[f]

\* the board's function at address fn is called with args; be is what it
\* does: the value it returns and what it stores through output pointers
Invoke(fn, args, be) == [fn |-> fn, args |-> args, be |-> be]

\* a void function returns nothing
NoRet == [ret |-> 0]

\* the caller passes no output locations
NoOuts == <<>>

(* --------------------- descriptor resolution --------------------------- *)
\* the scratch area of the hart that executes (sbi_scratch.h)
sbi_scratch_thishart_ptr(h) == scratch[h]

sbi_platform_ptr(s) == s.platform_addr

\* a variant that resolves the descriptor for the boot hart only
sbi_platform_thishart_ptr_BootOnly(h) ==
    IF h = 0 THEN sbi_platform_ptr(sbi_scratch_thishart_ptr(h)) ELSE NULL

sbi_platform_thishart_ptr(h) == sbi_platform_ptr(sbi_scratch_thishart_ptr(h))

(* --------------------------- feature macros ---------------------------- *)
\* the value of a u64 whose set bits all lie below bit 31
RECURSIVE U64Value(_)
U64Value(bits) ==
    IF bits = {} THEN 0
    ELSE LET b == CHOOSE x \in bits : TRUE
         IN  2 ^ b + U64Value(bits \ {b})

\* (__p)->features & FLAG.  The macro reads the features word with no test
\* of __p: with a null __p the read is undefined behaviour, and ub is the
\* outcome the build produces for it: a trap (ub.trap) or whatever word
\* the address holds (ub.word).
FeatureTest(p, flag, ub) ==
    LET word == IF p = NULL THEN ub.word ELSE Load(p, "features")
    IN  Result(U64Value(word \cap flag), <<>>, {offsetof("features")},
               p = NULL /\ ub.trap, NoOuts)

sbi_platform_has_mmio_timer_value(p, ub) ==
    FeatureTest(p, SBI_PLATFORM_HAS_MMIO_TIMER_VALUE, ub)

sbi_platform_has_hart_hotplug(p, ub) ==
    FeatureTest(p, SBI_PLATFORM_HAS_HART_HOTPLUG, ub)

\* a variant that tests the neighbouring flag
sbi_platform_has_pmp_WrongFlag(p, ub) ==
    FeatureTest(p, SBI_PLATFORM_HAS_SCOUNTEREN, ub)

sbi_platform_has_pmp(p, ub) ==
    FeatureTest(p, SBI_PLATFORM_HAS_PMP, ub)

sbi_platform_has_scounteren(p, ub) ==
    FeatureTest(p, SBI_PLATFORM_HAS_SCOUNTEREN, ub)

sbi_platform_has_mcounteren(p, ub) ==
    FeatureTest(p, SBI_PLATFORM_HAS_MCOUNTEREN, ub)

sbi_platform_has_mfaults_delegation(p, ub) ==
    FeatureTest(p, SBI_PLATFORM_HAS_MFAULTS_DELEGATION, ub)

(* ---------------------- identity and topology -------------------------- *)
\* returns plat->name, the address of the array (computed, nothing is
\* read from memory), or NULL
sbi_platform_name(plat) ==
    IF plat # NULL
    THEN Result(plat + offsetof("name"), <<>>, {}, FALSE, NoOuts)
    ELSE Result(NULL, <<>>, {}, FALSE, NoOuts)

\* the int (1 << hartid), as the set of set bits of its 32-bit pattern.
\* A shift that reaches the sign bit yields INT_MIN on every supported
\* compiler; a shift by 32 or more is undefined behaviour and ub.shift is
\* the outcome of the build: the count taken modulo 32 ("wrap", the
\* hardware's 32-bit shift) or a zero result ("zero").
ShiftOne(hartid, ub) ==
    IF hartid < IntBits THEN {hartid}
    ELSE IF ub.shift = "wrap" THEN {hartid % IntBits}
    ELSE {}

\* usual arithmetic conversion of an int to u64: sign extension
IntToU64(bits) ==
    IF (IntBits - 1) \in bits
    THEN bits \cup ((IntBits - 1) .. (U64Bits - 1))
    ELSE bits

sbi_platform_hart_disabled(plat, hartid, ub) ==
    IF plat # NULL
       /\ (Load(plat, "disabled_hart_mask")
             \cap IntToU64(ShiftOne(hartid, ub))) # {}
    THEN Result(1, <<>>, {offsetof("disabled_hart_mask")}, FALSE, NoOuts)
    ELSE Result(0, <<>>,
                IF plat # NULL THEN {offsetof("disabled_hart_mask")} ELSE {},
                FALSE, NoOuts)

\* a variant without the test of plat
sbi_platform_hart_count_NoNullTest(plat) ==
    Result(Load(plat, "hart_count"), <<>>, {offsetof("hart_count")}, FALSE,
           NoOuts)

sbi_platform_hart_count(plat) ==
    IF plat # NULL
    THEN Result(Load(plat, "hart_count"), <<>>, {offsetof("hart_count")},
                FALSE, NoOuts)
    ELSE Result(0, <<>>, {}, FALSE, NoOuts)

sbi_platform_hart_stack_size(plat) ==
    IF plat # NULL
    THEN Result(Load(plat, "hart_stack_size"), <<>>,
                {offsetof("hart_stack_size")}, FALSE, NoOuts)
    ELSE Result(0, <<>>, {}, FALSE, NoOuts)

(* --------------------------- dispatchers ------------------------------- *)
\* Every dispatcher has the shape
\*     if (plat && plat->op) return plat->op(args);  return 0;
\* The offset of plat->op is read only after plat tested non-null.  be is
\* what the board's function does if it is invoked on this call: be.ret is
\* the value it returns and, for pmp_region_info, be.outs what it stores
\* through the three output pointers.  A void dispatcher has result 0.
sbi_platform_early_init(plat, hartid, cold_boot, be) ==
    IF plat # NULL /\ Load(plat, "early_init") # NULL
    THEN Result(be.ret, <<Invoke(Load(plat, "early_init"), <<hartid, cold_boot>>, be)>>,
                {offsetof("early_init")}, FALSE, NoOuts)
    ELSE Result(0, <<>>, IF plat # NULL THEN {offsetof("early_init")} ELSE {},
                FALSE, NoOuts)

sbi_platform_final_init(plat, hartid, cold_boot, be) ==
    IF plat # NULL /\ Load(plat, "final_init") # NULL
    THEN Result(be.ret, <<Invoke(Load(plat, "final_init"), <<hartid, cold_boot>>, be)>>,
                {offsetof("final_init")}, FALSE, NoOuts)
    ELSE Result(0, <<>>, IF plat # NULL THEN {offsetof("final_init")} ELSE {},
                FALSE, NoOuts)

sbi_platform_pmp_region_count(plat, hartid, be) ==
    IF plat # NULL /\ Load(plat, "pmp_region_count") # NULL
    THEN Result(be.ret, <<Invoke(Load(plat, "pmp_region_count"), <<hartid>>, be)>>,
                {offsetof("pmp_region_count")}, FALSE, NoOuts)
    ELSE Result(0, <<>>, IF plat # NULL THEN {offsetof("pmp_region_count")} ELSE {},
                FALSE, NoOuts)

\* outs are the caller's three output locations (*prot, *addr, *log2size)
\* as they are before the call.  The three pointers are handed to the
\* board's function as they are; nothing else stores through them.
sbi_platform_pmp_region_info(plat, hartid, index, outs, be) ==
    IF plat # NULL /\ Load(plat, "pmp_region_info") # NULL
    THEN Result(be.ret,
                <<Invoke(Load(plat, "pmp_region_info"), <<hartid, index>>, be)>>,
                {offsetof("pmp_region_info")}, FALSE, be.outs)
    ELSE Result(0, <<>>,
                IF plat # NULL THEN {offsetof("pmp_region_info")} ELSE {},
                FALSE, outs)

sbi_platform_console_putc(plat, ch) ==
    IF plat # NULL /\ Load(plat, "console_putc") # NULL
    THEN Result(0, <<Invoke(Load(plat, "console_putc"), <<ch>>, NoRet)>>,
                {offsetof("console_putc")}, FALSE, NoOuts)
    ELSE Result(0, <<>>, IF plat # NULL THEN {offsetof("console_putc")} ELSE {},
                FALSE, NoOuts)

sbi_platform_console_getc(plat, be) ==
    IF plat # NULL /\ Load(plat, "console_getc") # NULL
    THEN Result(be.ret, <<Invoke(Load(plat, "console_getc"), <<>>, be)>>,
                {offsetof("console_getc")}, FALSE, NoOuts)
    ELSE Result(0, <<>>, IF plat # NULL THEN {offsetof("console_getc")} ELSE {},
                FALSE, NoOuts)

sbi_platform_console_init(plat, be) ==
    IF plat # NULL /\ Load(plat, "console_init") # NULL
    THEN Result(be.ret, <<Invoke(Load(plat, "console_init"), <<>>, be)>>,
                {offsetof("console_init")}, FALSE, NoOuts)
    ELSE Result(0, <<>>, IF plat # NULL THEN {offsetof("console_init")} ELSE {},
                FALSE, NoOuts)

sbi_platform_irqchip_init(plat, hartid, cold_boot, be) ==
    IF plat # NULL /\ Load(plat, "irqchip_init") # NULL
    THEN Result(be.ret, <<Invoke(Load(plat, "irqchip_init"), <<hartid, cold_boot>>, be)>>,
                {offsetof("irqchip_init")}, FALSE, NoOuts)
    ELSE Result(0, <<>>, IF plat # NULL THEN {offsetof("irqchip_init")} ELSE {},
                FALSE, NoOuts)

\* a variant that passes the two harts in the other order
sbi_platform_ipi_inject_Swapped(plat, target_hart, source_hart) ==
    IF plat # NULL /\ Load(plat, "ipi_inject") # NULL
    THEN Result(0, <<Invoke(Load(plat, "ipi_inject"), <<source_hart, target_hart>>, NoRet)>>,
                {offsetof("ipi_inject")}, FALSE, NoOuts)
    ELSE Result(0, <<>>, IF plat # NULL THEN {offsetof("ipi_inject")} ELSE {},
                FALSE, NoOuts)

sbi_platform_ipi_inject(plat, target_hart, source_hart) ==
    IF plat # NULL /\ Load(plat, "ipi_inject") # NULL
    THEN Result(0, <<Invoke(Load(plat, "ipi_inject"), <<target_hart, source_hart>>, NoRet)>>,
                {offsetof("ipi_inject")}, FALSE, NoOuts)
    ELSE Result(0, <<>>, IF plat # NULL THEN {offsetof("ipi_inject")} ELSE {},
                FALSE, NoOuts)

\* a variant that tests plat only and calls whatever plat->ipi_sync holds
sbi_platform_ipi_sync_NoEntryTest(plat, target_hart, source_hart) ==
    IF plat # NULL
    THEN Result(0, <<Invoke(Load(plat, "ipi_sync"), <<target_hart, source_hart>>, NoRet)>>,
                {offsetof("ipi_sync")}, FALSE, NoOuts)
    ELSE Result(0, <<>>, {}, FALSE, NoOuts)

sbi_platform_ipi_sync(plat, target_hart, source_hart) ==
    IF plat # NULL /\ Load(plat, "ipi_sync") # NULL
    THEN Result(0, <<Invoke(Load(plat, "ipi_sync"), <<target_hart, source_hart>>, NoRet)>>,
                {offsetof("ipi_sync")}, FALSE, NoOuts)
    ELSE Result(0, <<>>, IF plat # NULL THEN {offsetof("ipi_sync")} ELSE {},
                FALSE, NoOuts)

sbi_platform_ipi_clear(plat, target_hart) ==
    IF plat # NULL /\ Load(plat, "ipi_clear") # NULL
    THEN Result(0, <<Invoke(Load(plat, "ipi_clear"), <<target_hart>>, NoRet)>>,
                {offsetof("ipi_clear")}, FALSE, NoOuts)
    ELSE Result(0, <<>>, IF plat # NULL THEN {offsetof("ipi_clear")} ELSE {},
                FALSE, NoOuts)

sbi_platform_ipi_init(plat, hartid, cold_boot, be) ==
    IF plat # NULL /\ Load(plat, "ipi_init") # NULL
    THEN Result(be.ret, <<Invoke(Load(plat, "ipi_init"), <<hartid, cold_boot>>, be)>>,
                {offsetof("ipi_init")}, FALSE, NoOuts)
    ELSE Result(0, <<>>, IF plat # NULL THEN {offsetof("ipi_init")} ELSE {},
                FALSE, NoOuts)

sbi_platform_timer_value(plat, be) ==
    IF plat # NULL /\ Load(plat, "timer_value") # NULL
    THEN Result(be.ret, <<Invoke(Load(plat, "timer_value"), <<>>, be)>>,
                {offsetof("timer_value")}, FALSE, NoOuts)
    ELSE Result(0, <<>>, IF plat # NULL THEN {offsetof("timer_value")} ELSE {},
                FALSE, NoOuts)

sbi_platform_timer_event_start(plat, target_hart, next_event) ==
    IF plat # NULL /\ Load(plat, "timer_event_start") # NULL
    THEN Result(0, <<Invoke(Load(plat, "timer_event_start"), <<target_hart, next_event>>, NoRet)>>,
                {offsetof("timer_event_start")}, FALSE, NoOuts)
    ELSE Result(0, <<>>, IF plat # NULL THEN {offsetof("timer_event_start")} ELSE {},
                FALSE, NoOuts)

sbi_platform_timer_event_stop(plat, target_hart) ==
    IF plat # NULL /\ Load(plat, "timer_event_stop") # NULL
    THEN Result(0, <<Invoke(Load(plat, "timer_event_stop"), <<target_hart>>, NoRet)>>,
                {offsetof("timer_event_stop")}, FALSE, NoOuts)
    ELSE Result(0, <<>>, IF plat # NULL THEN {offsetof("timer_event_stop")} ELSE {},
                FALSE, NoOuts)

sbi_platform_timer_init(plat, hartid, cold_boot, be) ==
    IF plat # NULL /\ Load(plat, "timer_init") # NULL
    THEN Result(be.ret, <<Invoke(Load(plat, "timer_init"), <<hartid, cold_boot>>, be)>>,
                {offsetof("timer_init")}, FALSE, NoOuts)
    ELSE Result(0, <<>>, IF plat # NULL THEN {offsetof("timer_init")} ELSE {},
                FALSE, NoOuts)

\* a variant that reports an error when the board has no reboot entry
sbi_platform_system_reboot_ErrIfAbsent(plat, type, be) ==
    IF plat # NULL /\ Load(plat, "system_reboot") # NULL
    THEN Result(be.ret, <<Invoke(Load(plat, "system_reboot"), <<type>>, be)>>,
                {offsetof("system_reboot")}, FALSE, NoOuts)
    ELSE Result(0 - 1, <<>>,
                IF plat # NULL THEN {offsetof("system_reboot")} ELSE {},
                FALSE, NoOuts)

sbi_platform_system_reboot(plat, type, be) ==
    IF plat # NULL /\ Load(plat, "system_reboot") # NULL
    THEN Result(be.ret, <<Invoke(Load(plat, "system_reboot"), <<type>>, be)>>,
                {offsetof("system_reboot")}, FALSE, NoOuts)
    ELSE Result(0, <<>>, IF plat # NULL THEN {offsetof("system_reboot")} ELSE {},
                FALSE, NoOuts)

sbi_platform_system_shutdown(plat, type, be) ==
    IF plat # NULL /\ Load(plat, "system_shutdown") # NULL
    THEN Result(be.ret, <<Invoke(Load(plat, "system_shutdown"), <<type>>, be)>>,
                {offsetof("system_shutdown")}, FALSE, NoOuts)
    ELSE Result(0, <<>>, IF plat # NULL THEN {offsetof("system_shutdown")} ELSE {},
                FALSE, NoOuts)

(* ----------------------- inputs of the model --------------------------- *)
\* bool
Bool == {0, 1}

\* a descriptor: features word, topology, and the set of populated entries
Descriptor(feat, topo, populated) ==
    [name |-> "board", features |-> feat, hart_count |-> topo.count,
     hart_stack_size |-> 8192, disabled_hart_mask |-> topo.mask]
    @@ [e \in Entries |-> IF e \in populated THEN BackendAddr(e) ELSE NULL]

\* every other entry point of the table, starting with the first
OddEntries == { e \in Entries : MemberIndex(e) % 2 = 0 }

\* boards that implement nothing, everything, or one half of the table:
\* every entry is absent on a board that populates others, and present on
\* a board that leaves others out
OpsFamilies == {{}, Entries, OddEntries, Entries \ OddEntries}

\* hart_count / disabled_hart_mask pairs, hart_count <= 64
Topologies ==
    { [count |-> 4, mask |-> {2}],
      [count |-> 4, mask |-> {}],
      [count |-> 32, mask |-> {0, 31}],
      [count |-> 64, mask |-> {32}],
      [count |-> 64, mask |-> {1, 63}],
      [count |-> 64, mask |-> {0, 31}] }

\* hart ids passed to hart_disabled
ProbedHarts == {0, 1, 2, 3, 30, 31, 32, 33, 63}

\* what a board's function may return: an int (a negative error code or
\* success), or an unsigned count, character or timer value
IntRets == {[ret |-> 0 - 1], [ret |-> 0]}
UnsignedRets == {[ret |-> 0], [ret |-> 5]}

\* what the board's pmp_region_info may return and store
PmpInfoRets == [ret : {0 - 1, 0}, outs : {<<0, 0, 0>>, <<1, 2, 3>>}]

\* what the caller's output locations may hold before a call
CallerOuts == {<<0, 0, 0>>, <<7, 5, 3>>}

\* outcomes of a read through a null descriptor pointer: a trap, or the
\* word found at the address
NullReads == [trap : BOOLEAN, word : {{}, 0 .. 5}]

\* outcomes of an int shift by 32 or more
WideShifts == [shift : {"wrap", "zero"}]

\* the descriptor pointers a caller on hart h may pass
Plats(h) == {NULL, sbi_platform_thishart_ptr(h)}

(* ------------------------------ state ---------------------------------- *)
\* platform  the descriptor at PlatAddr
\* scratch   the per-hart scratch areas
\* pc        where each hart is: "idle", or "in_ipi_sync" while the board's
\*           ipi_sync function keeps it
\* last      the accessor call made last
Call(h, op, plat, args, pre, r) ==
    [hart |-> h, op |-> op, plat |-> plat, args |-> args, pre |-> pre,
     ret |-> r.ret, calls |-> r.calls, deref |-> r.deref, fault |-> r.fault,
     outs |-> r.outs]

NoCall == Call(0, "none", NULL, <<>>, NoOuts, Result(0, <<>>, {}, FALSE, NoOuts))

InitWith(feats, topos, families) ==
    /\ platform \in { Descriptor(f, t, o) :
                        f \in feats, t \in topos, o \in families }
    /\ scratch = [h \in Harts |-> [platform_addr |-> PlatAddr]]
    /\ pc = [h \in Harts |-> "idle"]
    /\ last = NoCall

Init ==
    InitWith({SBI_PLATFORM_DEFAULT_FEATURES},
             {[count |-> 64, mask |-> {0, 34}]}, OpsFamilies)

InitFeat ==
    InitWith(SUBSET (0 .. MaxFeatureBit),
             {[count |-> 4, mask |-> {2}]}, {{}, Entries})

InitHart ==
    InitWith({SBI_PLATFORM_DEFAULT_FEATURES}, Topologies, {{}, Entries})

\* hart h makes the call c, which returns at once
Return(h, c) ==
    /\ pc[h] = "idle"
    /\ last' = c
    /\ UNCHANGED <<platform, scratch, pc>>

(* ----------------------------- actions --------------------------------- *)
HasMmioTimerValue(h) ==
    \E p \in Plats(h), ub \in NullReads :
        Return(h, Call(h, "has_mmio_timer_value", p, <<>>, NoOuts,
                       sbi_platform_has_mmio_timer_value(p, ub)))

HasHartHotplug(h) ==
    \E p \in Plats(h), ub \in NullReads :
        Return(h, Call(h, "has_hart_hotplug", p, <<>>, NoOuts,
                       sbi_platform_has_hart_hotplug(p, ub)))

HasPmp(h) ==
    \E p \in Plats(h), ub \in NullReads :
        Return(h, Call(h, "has_pmp", p, <<>>, NoOuts,
                       sbi_platform_has_pmp(p, ub)))

HasScounteren(h) ==
    \E p \in Plats(h), ub \in NullReads :
        Return(h, Call(h, "has_scounteren", p, <<>>, NoOuts,
                       sbi_platform_has_scounteren(p, ub)))

HasMcounteren(h) ==
    \E p \in Plats(h), ub \in NullReads :
        Return(h, Call(h, "has_mcounteren", p, <<>>, NoOuts,
                       sbi_platform_has_mcounteren(p, ub)))

HasMfaultsDelegation(h) ==
    \E p \in Plats(h), ub \in NullReads :
        Return(h, Call(h, "has_mfaults_delegation", p, <<>>, NoOuts,
                       sbi_platform_has_mfaults_delegation(p, ub)))

Name(h) ==
    \E p \in Plats(h) :
        Return(h, Call(h, "name", p, <<>>, NoOuts,
                       sbi_platform_name(p)))

HartDisabled(h) ==
    \E p \in Plats(h), hartid \in ProbedHarts, ub \in WideShifts :
        Return(h, Call(h, "hart_disabled", p, <<hartid>>, NoOuts,
                       sbi_platform_hart_disabled(p, hartid, ub)))

HartCount(h) ==
    \E p \in Plats(h) :
        Return(h, Call(h, "hart_count", p, <<>>, NoOuts,
                       sbi_platform_hart_count(p)))

HartStackSize(h) ==
    \E p \in Plats(h) :
        Return(h, Call(h, "hart_stack_size", p, <<>>, NoOuts,
                       sbi_platform_hart_stack_size(p)))

EarlyInit(h) ==
    \E p \in Plats(h), hartid \in Harts, cold_boot \in Bool, be \in IntRets :
        Return(h, Call(h, "early_init", p, <<hartid, cold_boot>>, NoOuts,
                       sbi_platform_early_init(p, hartid, cold_boot, be)))

FinalInit(h) ==
    \E p \in Plats(h), hartid \in Harts, cold_boot \in Bool, be \in IntRets :
        Return(h, Call(h, "final_init", p, <<hartid, cold_boot>>, NoOuts,
                       sbi_platform_final_init(p, hartid, cold_boot, be)))

PmpRegionCount(h) ==
    \E p \in Plats(h), hartid \in Harts, be \in UnsignedRets :
        Return(h, Call(h, "pmp_region_count", p, <<hartid>>, NoOuts,
                       sbi_platform_pmp_region_count(p, hartid, be)))

PmpRegionInfo(h) ==
    \E p \in Plats(h), hartid \in Harts, index \in {0, 1}, outs \in CallerOuts, be \in PmpInfoRets :
        Return(h, Call(h, "pmp_region_info", p, <<hartid, index>>, outs,
                       sbi_platform_pmp_region_info(p, hartid, index, outs, be)))

ConsolePutc(h) ==
    \E p \in Plats(h), ch \in {10, 65} :
        Return(h, Call(h, "console_putc", p, <<ch>>, NoOuts,
                       sbi_platform_console_putc(p, ch)))

ConsoleGetc(h) ==
    \E p \in Plats(h), be \in UnsignedRets :
        Return(h, Call(h, "console_getc", p, <<>>, NoOuts,
                       sbi_platform_console_getc(p, be)))

ConsoleInit(h) ==
    \E p \in Plats(h), be \in IntRets :
        Return(h, Call(h, "console_init", p, <<>>, NoOuts,
                       sbi_platform_console_init(p, be)))

IrqchipInit(h) ==
    \E p \in Plats(h), hartid \in Harts, cold_boot \in Bool, be \in IntRets :
        Return(h, Call(h, "irqchip_init", p, <<hartid, cold_boot>>, NoOuts,
                       sbi_platform_irqchip_init(p, hartid, cold_boot, be)))

IpiInject(h) ==
    \E p \in Plats(h), target_hart \in Harts, source_hart \in Harts :
        Return(h, Call(h, "ipi_inject", p, <<target_hart, source_hart>>, NoOuts,
                       sbi_platform_ipi_inject(p, target_hart, source_hart)))

\* The accessor itself never waits.  If it enters the board's ipi_sync
\* function, that function keeps the hart until the target hart
\* acknowledges (IpiSyncAck); otherwise the call returns at once.
IpiSync(h) ==
    \E p \in Plats(h), target_hart \in Harts, source_hart \in Harts :
        LET c == Call(h, "ipi_sync", p, <<target_hart, source_hart>>, NoOuts,
                      sbi_platform_ipi_sync(p, target_hart, source_hart))
        IN  /\ pc[h] = "idle"
            /\ last' = c
            /\ pc' = [pc EXCEPT ![h] = IF c.calls # <<>> THEN "in_ipi_sync"
                                       ELSE "idle"]
            /\ UNCHANGED <<platform, scratch>>

\* the target hart acknowledges the IPI: the board's ipi_sync function
\* returns, and with it the accessor
IpiSyncAck(h) ==
    /\ pc[h] = "in_ipi_sync"
    /\ pc' = [pc EXCEPT ![h] = "idle"]
    /\ UNCHANGED <<platform, scratch, last>>

IpiClear(h) ==
    \E p \in Plats(h), target_hart \in Harts :
        Return(h, Call(h, "ipi_clear", p, <<target_hart>>, NoOuts,
                       sbi_platform_ipi_clear(p, target_hart)))

IpiInit(h) ==
    \E p \in Plats(h), hartid \in Harts, cold_boot \in Bool, be \in IntRets :
        Return(h, Call(h, "ipi_init", p, <<hartid, cold_boot>>, NoOuts,
                       sbi_platform_ipi_init(p, hartid, cold_boot, be)))

TimerValue(h) ==
    \E p \in Plats(h), be \in UnsignedRets :
        Return(h, Call(h, "timer_value", p, <<>>, NoOuts,
                       sbi_platform_timer_value(p, be)))

TimerEventStart(h) ==
    \E p \in Plats(h), target_hart \in Harts, next_event \in {0, 9} :
        Return(h, Call(h, "timer_event_start", p, <<target_hart, next_event>>, NoOuts,
                       sbi_platform_timer_event_start(p, target_hart, next_event)))

TimerEventStop(h) ==
    \E p \in Plats(h), target_hart \in Harts :
        Return(h, Call(h, "timer_event_stop", p, <<target_hart>>, NoOuts,
                       sbi_platform_timer_event_stop(p, target_hart)))

TimerInit(h) ==
    \E p \in Plats(h), hartid \in Harts, cold_boot \in Bool, be \in IntRets :
        Return(h, Call(h, "timer_init", p, <<hartid, cold_boot>>, NoOuts,
                       sbi_platform_timer_init(p, hartid, cold_boot, be)))

SystemReboot(h) ==
    \E p \in Plats(h), type \in {0, 1}, be \in IntRets :
        Return(h, Call(h, "system_reboot", p, <<type>>, NoOuts,
                       sbi_platform_system_reboot(p, type, be)))

SystemShutdown(h) ==
    \E p \in Plats(h), type \in {0, 1}, be \in IntRets :
        Return(h, Call(h, "system_shutdown", p, <<type>>, NoOuts,
                       sbi_platform_system_shutdown(p, type, be)))

Next ==
    \E h \in Harts :
        \/ HasMmioTimerValue(h) \/ HasHartHotplug(h) \/ HasPmp(h)
        \/ HasScounteren(h) \/ HasMcounteren(h) \/ HasMfaultsDelegation(h)
        \/ Name(h) \/ HartDisabled(h) \/ HartCount(h) \/ HartStackSize(h)
        \/ EarlyInit(h) \/ FinalInit(h)
        \/ PmpRegionCount(h) \/ PmpRegionInfo(h)
        \/ ConsolePutc(h) \/ ConsoleGetc(h) \/ ConsoleInit(h)
        \/ IrqchipInit(h)
        \/ IpiInject(h) \/ IpiSync(h) \/ IpiSyncAck(h) \/ IpiClear(h)
        \/ IpiInit(h)
        \/ TimerValue(h) \/ TimerEventStart(h) \/ TimerEventStop(h)
        \/ TimerInit(h)
        \/ SystemReboot(h) \/ SystemShutdown(h)

\* the feature queries alone
NextFeat ==
    \E h \in Harts :
        \/ HasMmioTimerValue(h) \/ HasHartHotplug(h) \/ HasPmp(h)
        \/ HasScounteren(h) \/ HasMcounteren(h) \/ HasMfaultsDelegation(h)

\* the identity and topology accessors alone
NextHart ==
    \E h \in Harts :
        Name(h) \/ HartDisabled(h) \/ HartCount(h) \/ HartStackSize(h)

\* every board of OpsFamilies, every accessor
Spec == Init /\ [][Next]_vars

\* every features word, the feature queries
SpecFeat == InitFeat /\ [][NextFeat]_vars

\* every topology, the topology accessors
SpecHart == InitHart /\ [][NextHart]_vars

(* ------------------------------ claims --------------------------------- *)
FeatureOps ==
    {"has_mmio_timer_value", "has_hart_hotplug", "has_pmp", "has_scounteren",
     "has_mcounteren", "has_mfaults_delegation"}

TopologyOps == {"name", "hart_disabled", "hart_count", "hart_stack_size"}

\* the accessor functions (everything but the feature macros)
AccessorOps == TopologyOps \cup Entries

\* the last call was made on the board's descriptor
OnDescriptor == last.plat # NULL

\* C1: for a descriptor with hart_count <= 64 and a hart_id below
\* hart_count, hart_disabled returns true iff bit hart_id of
\* disabled_hart_mask is set.
C1_HartDisabledIffMaskBit ==
    (/\ last.op = "hart_disabled"
     /\ OnDescriptor
     /\ platform.hart_count <= U64Bits
     /\ last.args[1] < platform.hart_count)
    => (last.ret = 1 <=> last.args[1] \in platform.disabled_hart_mask)

\* C2: an accessor function called with a null descriptor reads nothing
\* through the pointer, invokes no function of the board, returns its
\* default (NULL for platform_name, 0 for every other function; a void
\* function does nothing) and leaves the caller's output locations alone.
C2_NullDescriptorDefaults ==
    (last.op \in AccessorOps /\ last.plat = NULL)
    => /\ last.deref = {}
       /\ ~last.fault
       /\ last.calls = <<>>
       /\ last.ret = (IF last.op = "name" THEN NULL ELSE 0)
       /\ last.outs = last.pre

\* C2 witness: system_reboot was called with a null descriptor on a board
\* whose system_reboot entry is populated.
C2_Witness ==
    /\ last.op = "system_reboot"
    /\ last.plat = NULL
    /\ platform.system_reboot # NULL

\* C3: a feature query on a null descriptor yields "not supported" without
\* reading through the pointer and without a failure.
C3_NullFeatureQueryNotSupported ==
    (last.op \in FeatureOps /\ last.plat = NULL)
    => /\ last.ret = 0
       /\ last.deref = {}
       /\ ~last.fault

\* C4: a call of an operation whose entry point is null in the descriptor
\* returns 0 (at once, for a void operation), invokes no function of the
\* board, populated or not, and leaves the descriptor as it was.
C4_AbsentEntryDefaults ==
    [][(/\ last'.op \in Entries
        /\ last'.plat # NULL
        /\ platform[last'.op] = NULL)
       => /\ last'.ret = 0
          /\ last'.calls = <<>>
          /\ ~last'.fault
          /\ pc'[last'.hart] = "idle"
          /\ platform' = platform]_vars

\* C4 witness: system_reboot returned 0 on a board that has no
\* system_reboot entry but does have a system_shutdown entry.
C4_Witness ==
    /\ last.op = "system_reboot"
    /\ OnDescriptor
    /\ platform.system_reboot = NULL
    /\ platform.system_shutdown # NULL
    /\ last.ret = 0
    /\ last.calls = <<>>

\* C5: with no pmp_region_info entry point, pmp_region_info returns
\* success and the three outputs are zero, whatever they held before.
C5_AbsentPmpRegionInfoZeroOutputs ==
    (/\ last.op = "pmp_region_info"
     /\ OnDescriptor
     /\ platform.pmp_region_info = NULL)
    => /\ last.ret = 0
       /\ last.outs = <<0, 0, 0>>

\* C6: a call of an operation whose entry point is populated invokes that
\* entry point, once, and nothing else, with the caller's arguments in the
\* caller's order, and returns what the board's function returned (and
\* leaves in the outputs what it stored).
C6_PopulatedEntryPassThrough ==
    (/\ last.op \in Entries
     /\ OnDescriptor
     /\ platform[last.op] # NULL)
    => /\ Len(last.calls) = 1
       /\ last.calls[1].fn = BackendAddr(last.op)
       /\ last.calls[1].args = last.args
       /\ last.ret = last.calls[1].be.ret
       /\ last.outs = (IF last.op = "pmp_region_info"
                       THEN last.calls[1].be.outs ELSE last.pre)

\* C6 witness: ipi_inject was called with two different harts on a board
\* that populates ipi_inject, and the board's function was invoked.
C6_Witness ==
    /\ last.op = "ipi_inject"
    /\ OnDescriptor
    /\ platform.ipi_inject # NULL
    /\ last.args[1] # last.args[2]
    /\ last.calls # <<>>

\* the flag a feature query tests
FlagOf(op) ==
    CASE op = "has_mmio_timer_value" -> SBI_PLATFORM_HAS_MMIO_TIMER_VALUE
      [] op = "has_hart_hotplug" -> SBI_PLATFORM_HAS_HART_HOTPLUG
      [] op = "has_pmp" -> SBI_PLATFORM_HAS_PMP
      [] op = "has_scounteren" -> SBI_PLATFORM_HAS_SCOUNTEREN
      [] op = "has_mcounteren" -> SBI_PLATFORM_HAS_MCOUNTEREN
      [] op = "has_mfaults_delegation" -> SBI_PLATFORM_HAS_MFAULTS_DELEGATION

DefinedFeatures == UNION { FlagOf(op) : op \in FeatureOps }

\* the six feature queries on the board's descriptor, or-ed together (the
\* flags are distinct bits, so the sum is the bitwise or)
FeaturesReadBack ==
    LET ub == [trap |-> FALSE, word |-> {}]
    IN  sbi_platform_has_mmio_timer_value(PlatAddr, ub).ret
        + sbi_platform_has_hart_hotplug(PlatAddr, ub).ret
        + sbi_platform_has_pmp(PlatAddr, ub).ret
        + sbi_platform_has_scounteren(PlatAddr, ub).ret
        + sbi_platform_has_mcounteren(PlatAddr, ub).ret
        + sbi_platform_has_mfaults_delegation(PlatAddr, ub).ret

\* C7: on a valid descriptor the query for feature F is true iff bit F of
\* features is set, whatever entry points are populated, and the six
\* queries read back the features word (its six defined bits).
C7_FeatureQueryIffBit ==
    /\ (last.op \in FeatureOps /\ OnDescriptor)
       => /\ (last.ret # 0 <=> FlagOf(last.op) \subseteq platform.features)
          /\ last.calls = <<>>
    /\ FeaturesReadBack = U64Value(platform.features \cap DefinedFeatures)
    /\ platform.features \subseteq DefinedFeatures
       => FeaturesReadBack = U64Value(platform.features)

\* C7 witness: has_pmp was true on a board with the PMP bit set, the
\* scounteren bit clear and no PMP entry point populated.
C7_Witness ==
    /\ last.op = "has_pmp"
    /\ OnDescriptor
    /\ last.ret # 0
    /\ platform.features \cap SBI_PLATFORM_HAS_SCOUNTEREN = {}
    /\ platform.pmp_region_count = NULL
    /\ platform.pmp_region_info = NULL

C9_LeadingOffsets ==
    /\ offsetof("name") = SBI_PLATFORM_NAME_OFFSET
    /\ offsetof("features") = SBI_PLATFORM_FEATURES_OFFSET
    /\ offsetof("hart_count") = SBI_PLATFORM_HART_COUNT_OFFSET
    /\ offsetof("hart_stack_size") = SBI_PLATFORM_HART_STACK_SIZE_OFFSET
    /\ SBI_PLATFORM_NAME_OFFSET + sizeof("name") = SBI_PLATFORM_FEATURES_OFFSET
    /\ SBI_PLATFORM_FEATURES_OFFSET + sizeof("features")
          = SBI_PLATFORM_HART_COUNT_OFFSET
    /\ SBI_PLATFORM_HART_COUNT_OFFSET + sizeof("hart_count")
          = SBI_PLATFORM_HART_STACK_SIZE_OFFSET
    /\ SBI_PLATFORM_HART_STACK_SIZE_OFFSET + sizeof("hart_stack_size")
          = offsetof("disabled_hart_mask")
    /\ OnDescriptor =>
          /\ last.op = "name" => last.ret = last.plat + SBI_PLATFORM_NAME_OFFSET
          /\ last.op = "hart_count"
                => last.deref = {SBI_PLATFORM_HART_COUNT_OFFSET}
          /\ last.op = "hart_stack_size"
                => last.deref = {SBI_PLATFORM_HART_STACK_SIZE_OFFSET}

\* C9 witness: hart_stack_size was read from the descriptor at 0x4c.
C9_Witness ==
    /\ last.op = "hart_stack_size"
    /\ OnDescriptor
    /\ last.deref = {SBI_PLATFORM_HART_STACK_SIZE_OFFSET}
    /\ last.ret = platform.hart_stack_size

DescriptorNeverChanges == [][platform' = platform /\ scratch' = scratch]_vars

====
